---- MODULE Spec2Model ----
(***************************************************************************)
(* Ticket lifecycle and staff-board synchronisation of the guest-flow      *)
(* hotel service: the chat controller (createGuestTicket, updateTicket,    *)
(* classifyWithExternalAPI), the ticket routes and the dashboard page.     *)
(*                                                                         *)
(* Every asynchronous handler is split at its awaits: one action per       *)
(* stretch of synchronous code, so that other requests interleave exactly  *)
(* where the event loop lets them.                                         *)
(***************************************************************************)
EXTENDS Integers, Sequences, FiniteSets, TLC

\* ------------------------------------------------------------------ bounds
MaxCats == 2          \* longest category list the classifier returns
NumUpdateReqs == 2    \* PUT /tickets/:id requests in flight
MaxPulls == 2         \* fetchData calls one board makes
MaxMessages == 2      \* messages a ticket holds before the staff stop replying
MaxTime == 6          \* minutes the clock runs

\* --------------------------------------------------------------- constants
GuestReqs == {"g1", "g2"}                 \* POST /tickets/guest requests
UpdateReqs == 1..NumUpdateReqs
NumDeleteReqs == 2
DeleteReqs == 1..NumDeleteReqs
Boards == {"b1"}                          \* the mounted dashboard page; other
                                          \* staff sessions act through the server
KnownRooms == {"101", "102"}              \* room numbers with a Room document
GuestNames == {"Ann", "Bob"}              \* guestInfo.name of stored tickets
SlotMinutes == 5                          \* 5 * 60 * 1000 ms, in minutes
RoomNumbers == {"101", "999", ""}         \* req.body.roomNumber ("" is absent)
Statuses == {"raised", "in_progress", "completed"}
ClassifiedCategories == {"housekeeping", "service_fb"}
NoStatus == "none"                        \* req.body.status absent
NoResponse == "none"                      \* req.body.response absent
NoUrgency == "none"                       \* categoryInfo.urgency absent
NotCompleted == -1                        \* completedAt absent
BodyCategory == "porter"                  \* a category field sent in a PUT body
ClockStep == 3                            \* minutes between two looks at the clock

VARIABLES
  tickets,     \* the Ticket collection: id -> document
  nextId,      \* next _id the collection hands out
  creq,        \* the chatWithAI request
  greq,        \* createGuestTicket requests
  ureq,        \* updateTicket requests
  emitted,     \* the events the chat controller passed to io.emit, in order
  board,       \* per board: the dashboard page's React state
  fetches,     \* per board: fetchData calls in flight
  now,         \* the server's clock, in minutes
  dreq         \* deleteTicket requests

vars == <<tickets, nextId, creq, greq, ureq, emitted, board, fetches, now, dreq>>

\* ------------------------------------------------------------ small helpers
Range(s) == {s[i] : i \in DOMAIN s}
IsPrefix(s, t) == Len(s) <= Len(t) /\ SubSeq(t, 1, Len(s)) = s

\* ----------------------------------------------------- classification gateway
\* the classifier gives an urgency for some categories and none for others
UrgencyOf(c) == IF c = "housekeeping" THEN "high" ELSE NoUrgency
CategoryInfo(c) == [category |-> c, message |-> c, urgency |-> UrgencyOf(c)]
CategoryInfos == {CategoryInfo(c) : c \in ClassifiedCategories}
CategoryLists == UNION {[1..n -> CategoryInfos] : n \in 0..MaxCats}

\* what the external classifier's HTTP call can do
ApiOutcomes ==
  {[kind |-> "network_error"], [kind |-> "http_error"]}
  \cup {[kind |-> "ok", data |-> [should_create_ticket |-> s,
                                  has_categories |-> h,
                                  categories |-> IF h THEN c ELSE <<>>,
                                  confidence |-> 90,
                                  reasoning |-> "classified"]] :
          s \in BOOLEAN, h \in BOOLEAN, c \in CategoryLists}

Fallback == [should_create_ticket |-> FALSE,
             has_categories |-> TRUE,
             categories |-> <<>>,
             confidence |-> 0,
             reasoning |-> "Classification service unavailable"]

Return(v) == [raised |-> FALSE, value |-> v]
Throw == [raised |-> TRUE, value |-> Fallback]

\* the try block: roomNumber.toString() and the awaited axios.post
ClassifyTry(roomNumber, outcome) ==
  IF roomNumber = "" THEN Throw               \* undefined.toString()
  ELSE IF outcome.kind # "ok" THEN Throw      \* axios rejects
  ELSE Return(outcome.data)

ClassifyCatchRethrows(attempt) == attempt

\* the catch block: log and return the fallback
ClassifyCatch(attempt) ==
  IF attempt.raised THEN Return(Fallback) ELSE attempt

classifyWithExternalAPI(roomNumber, outcome) ==
  ClassifyCatch(ClassifyTry(roomNumber, outcome))

\* whether the call ever returns: axios.post is given a URL and a body and no
\* timeout, so the await ends only when the classifier answers or the
\* connection fails; a call that throws before the request leaves returns
Settles(roomNumber, answers) == roomNumber = "" \/ answers

\* ------------------------------------------------------------ HTTP responses
NoResp == [code |-> 0, shouldCreateTicket |-> FALSE, isGreeting |-> FALSE,
           ticketCount |-> 0, categories |-> <<>>]
ErrorResp(c) == [NoResp EXCEPT !.code = c]

\* res.status(200).json({shouldCreateTicket: false, isGreeting: true, ...})
GreetingResp == [NoResp EXCEPT !.code = 200, !.isGreeting = TRUE]

\* res.status(201).json({ticketCount, categories, shouldCreateTicket: true})
CreatedResp(createdTickets, classification) ==
  [code |-> 201, shouldCreateTicket |-> TRUE, isGreeting |-> FALSE,
   ticketCount |-> Len(createdTickets),
   categories |-> [i \in DOMAIN classification.categories |->
                     classification.categories[i].category]]

\* ------------------------------------------------------------------ tickets
NoTicket == [id |-> 0, roomNumber |-> "", guestName |-> "", category |-> "",
             status |-> "", messages |-> <<>>, createdAt |-> 0,
             subject |-> "", priority |-> "", completedAt |-> NotCompleted]

\* String.prototype.toUpperCase on the category names
ToUpperCase(c) ==
  CASE c = "housekeeping" -> "HOUSEKEEPING"
    [] c = "service_fb" -> "SERVICE_FB"
    [] OTHER -> c

NewTicketKeepsUrgency(id, roomNumber, categoryInfo, createdAt) ==
  [id |-> id, roomNumber |-> roomNumber, guestName |-> "Guest",
   category |-> categoryInfo.category, status |-> "raised",
   messages |-> <<[content |-> categoryInfo.message, sender |-> "system"]>>,
   createdAt |-> createdAt,
   subject |-> ToUpperCase(categoryInfo.category) \o " - Room " \o roomNumber,
   priority |-> categoryInfo.urgency,
   completedAt |-> NotCompleted]

\* the document Ticket.create stores for one classified category; createdAt is
\* the schema's timestamp, the time of the insert
NewTicket(id, roomNumber, categoryInfo, createdAt) ==
  [id |-> id, roomNumber |-> roomNumber, guestName |-> "Guest",
   category |-> categoryInfo.category, status |-> "raised",
   messages |-> <<[content |-> categoryInfo.message, sender |-> "system"]>>,
   createdAt |-> createdAt,
   subject |-> ToUpperCase(categoryInfo.category) \o " - Room " \o roomNumber,
   priority |-> IF categoryInfo.urgency # NoUrgency THEN categoryInfo.urgency
                ELSE "medium",
   completedAt |-> NotCompleted]

\* an emitted event: its name, the request that emitted it, the document it
\* is about, and payload, the argument io.emit is given
\* io.emit("newTicket", {ticket, notification: {title, message, timestamp}})
NewTicketEvent(ticket, g) ==
  [type |-> "newTicket", ticket |-> ticket, by |-> g,
   payload |-> [ticket |-> ticket,
                notification |->
                  [title |-> "New Service Request",
                   message |-> ticket.guestName \o " from Room "
                                 \o ticket.roomNumber \o " needs "
                                 \o ticket.category \o " assistance",
                   timestamp |-> now]]]

\* io.emit("ticketUpdated", ticket): the argument is the document itself
TicketUpdatedEvent(doc, by) ==
  [type |-> "ticketUpdated", ticket |-> doc, by |-> by, payload |-> doc]

\* ------------------------------------------- dashboard page: state, listeners
EmptyBuckets == [raised |-> <<>>, in_progress |-> <<>>, completed |-> <<>>]
NotSending == [active |-> FALSE, ticket |-> NoTicket]
\* toasts: the ids of the tickets a new-ticket toast was shown for, in order
BoardInit == [connected |-> FALSE, tickets |-> EmptyBuckets,
              selectedTicket |-> NoTicket, sending |-> NotSending, pulls |-> 0,
              toasts |-> <<>>]

\* the raised bucket the fetchData of the mount effect reads: the effect runs
\* once, so the interval and the socket listeners keep calling the fetchData of
\* the first render, whose tickets is the initial state
EffectRaised == EmptyBuckets.raised

\* fetchData is called: both GET requests leave; raised is tickets.raised of
\* the render the called fetchData belongs to
StartFetch(b, raised) ==
  fetches[b] \cup {[n |-> board[b].pulls + 1, stage |-> "sent", data |-> <<>>,
                    raised |-> raised]}

\* the page's state after the socket handed it a newTicket event: the
\* listener toasts and calls fetchData (a disconnected socket hands nothing)
OnNewTicket(b, event) ==
  IF board[b].connected
  THEN [board[b] EXCEPT !.pulls = @ + 1,
                        !.toasts = Append(@, event.ticket.id)]
  ELSE board[b]

\* the page's state after the socket handed it a ticketUpdated event:
\* setupWebSocket registers listeners for connect, connect_error, error,
\* newTicket and disconnect, and none for ticketUpdated
OnTicketUpdated(b, event) == board[b]

\* ------------------------------------------------------------- chatWithAI
\* settles: whether the awaited axios.post of the request ever settles
ChatIdle == [pc |-> "idle", roomNumber |-> "", outcome |-> [kind |-> "none"],
             call |-> Return(Fallback), resp |-> NoResp, settles |-> TRUE]

\* POST /chat/ai arrives; the handler runs up to the awaited classification
ChatStart ==
  /\ creq.pc = "idle"
  /\ \E rn \in RoomNumbers, answers \in BOOLEAN :
       creq' = [creq EXCEPT !.pc = "classify", !.roomNumber = rn,
                            !.settles = Settles(rn, answers)]
  /\ UNCHANGED <<tickets, nextId, greq, ureq, emitted, board, fetches, now, dreq>>

\* the classification settles and the handler answers
ChatClassify ==
  /\ creq.pc = "classify"
  /\ creq.settles
  /\ \E o \in ApiOutcomes :
       LET call == classifyWithExternalAPI(creq.roomNumber, o) IN
       creq' = [creq EXCEPT
                  !.pc = "done", !.outcome = o, !.call = call,
                  !.resp = IF call.raised THEN ErrorResp(500)
                           ELSE [NoResp EXCEPT
                                   !.code = 200,
                                   !.shouldCreateTicket =
                                      call.value.should_create_ticket,
                                   !.categories =
                                      [i \in DOMAIN call.value.categories |->
                                         call.value.categories[i].category]]]
  /\ UNCHANGED <<tickets, nextId, greq, ureq, emitted, board, fetches, now, dreq>>

\* -------------------------------------------------------- createGuestTicket
GuestIdle == [pc |-> "idle", roomNumber |-> "", outcome |-> [kind |-> "none"],
              call |-> Return(Fallback), roomLookup |-> "none",
              roomFound |-> FALSE, k |-> 0,
              pending |-> NoTicket, createdTickets |-> <<>>,
              attempts |-> <<>>, resp |-> NoResp, settles |-> TRUE]

\* the condition of the greeting check: !classification.should_create_ticket
DeclinesNever(classification) == FALSE
Declines(classification) == ~classification.should_create_ticket

\* the number of iterations the for-of loop has
LoopLength(classification) ==
  IF classification.has_categories THEN Len(classification.categories) ELSE 0

\* where the loop goes after the body for category k ended; the try/catch is
\* inside the body, so a failed attempt moves on like a successful one
NextIndexAbortOnFailure(k, failed, n) == IF failed THEN n + 1 ELSE k + 1
NextIndex(k, failed, n) == k + 1

\* lines 196-203, reached when the loop is over: classification.categories.map
\* throws on a payload without categories and the outer catch answers 500
FinalResp(createdTickets, classification) ==
  IF classification.has_categories
  THEN CreatedResp(createdTickets, classification)
  ELSE ErrorResp(500)

\* the request record after the loop body for category r.k ended
AfterAttempt(r, failed, attempt, created) ==
  LET n == LoopLength(r.call.value)
      k2 == NextIndex(r.k, failed, n)
      r2 == [r EXCEPT !.k = k2, !.pending = NoTicket,
                      !.attempts = Append(@, attempt),
                      !.createdTickets = created]
  IN IF k2 <= n THEN [r2 EXCEPT !.pc = "create"]
     ELSE [r2 EXCEPT !.pc = "done",
                     !.resp = FinalResp(created, r.call.value)]

\* POST /tickets/guest arrives: body validation, then the awaited classification
GuestStart(g) ==
  /\ greq[g].pc = "idle"
  /\ \E rn \in RoomNumbers, answers \in BOOLEAN :
       greq' = [greq EXCEPT ![g] =
                  IF rn = ""
                  THEN [@ EXCEPT !.pc = "done", !.resp = ErrorResp(400)]
                  ELSE [@ EXCEPT !.pc = "classify", !.roomNumber = rn,
                                 !.settles = Settles(rn, answers)]]
  /\ UNCHANGED <<tickets, nextId, creq, ureq, emitted, board, fetches, now, dreq>>

\* the classification settles; greeting check; Room.findOne is issued
GuestClassifyWith(g, outcomes) ==
  /\ greq[g].pc = "classify"
  /\ greq[g].settles
  /\ \E o \in outcomes :
       LET call == classifyWithExternalAPI(greq[g].roomNumber, o) IN
       greq' = [greq EXCEPT ![g] =
                  IF call.raised
                  THEN [@ EXCEPT !.pc = "done", !.outcome = o, !.call = call,
                                 !.resp = ErrorResp(500)]
                  ELSE IF Declines(call.value)
                  THEN [@ EXCEPT !.pc = "done", !.outcome = o, !.call = call,
                                 !.resp = GreetingResp]
                  ELSE [@ EXCEPT !.pc = "findRoom", !.outcome = o,
                                 !.call = call]]
  /\ UNCHANGED <<tickets, nextId, creq, ureq, emitted, board, fetches, now, dreq>>

GuestClassify(g) == GuestClassifyWith(g, ApiOutcomes)

RoomExistsAlways(roomNumber) == TRUE

\* whether Room.findOne({number: roomNumber}) resolves to a document
RoomExists(roomNumber) == roomNumber \in KnownRooms

\* Room.findOne settles: rejected (500), no room (404), or the loop starts;
\* roomLookup records how it settled
GuestFindRoom(g) ==
  /\ greq[g].pc = "findRoom"
  /\ LET r == greq[g] IN
     \E dbOk \in BOOLEAN :
       greq' = [greq EXCEPT ![g] =
                  IF ~dbOk
                  THEN [r EXCEPT !.pc = "done", !.roomLookup = "rejected",
                                 !.resp = ErrorResp(500)]
                  ELSE IF ~RoomExists(r.roomNumber)
                  THEN [r EXCEPT !.pc = "done", !.roomLookup = "null",
                                 !.resp = ErrorResp(404)]
                  ELSE IF LoopLength(r.call.value) > 0
                  THEN [r EXCEPT !.pc = "create", !.roomLookup = "found",
                                 !.roomFound = TRUE, !.k = 1]
                  ELSE [r EXCEPT !.pc = "done", !.roomLookup = "found",
                                 !.roomFound = TRUE, !.k = 1,
                                 !.resp = FinalResp(<<>>, r.call.value)]]
  /\ UNCHANGED <<tickets, nextId, creq, ureq, emitted, board, fetches, now, dreq>>

\* Ticket.create for category k settles: persisted, or rejected and logged
GuestCreate(g) ==
  /\ greq[g].pc = "create"
  /\ LET r == greq[g]
         info == r.call.value.categories[r.k]
         t == NewTicket(nextId, r.roomNumber, info, now)
     IN \E dbOk \in BOOLEAN :
          IF dbOk
          THEN /\ tickets' = [i \in DOMAIN tickets \cup {nextId} |->
                                IF i = nextId THEN t ELSE tickets[i]]
               /\ nextId' = nextId + 1
               /\ greq' = [greq EXCEPT ![g] =
                             [@ EXCEPT !.pc = "populate", !.pending = t]]
          ELSE /\ greq' = [greq EXCEPT ![g] =
                             AfterAttempt(r, TRUE,
                                          [category |-> info.category,
                                           result |-> "create_failed", id |-> 0],
                                          r.createdTickets)]
               /\ UNCHANGED <<tickets, nextId>>
  /\ UNCHANGED <<creq, ureq, emitted, board, fetches, now, dreq>>

\* whether the loop body reaches io.emit for an attempt with this result
EmitsAlways(result) == TRUE
Emits(result) == result = "created"

\* ticket.populate("room") settles; on success the ticket is pushed to
\* createdTickets and newTicket is emitted, on failure the catch logs
GuestPopulate(g) ==
  /\ greq[g].pc = "populate"
  /\ LET r == greq[g]
         t == r.pending
     IN \E dbOk \in BOOLEAN :
          LET result == IF dbOk THEN "created" ELSE "populate_failed"
              attempt == [category |-> t.category, result |-> result, id |-> t.id]
          IN /\ greq' = [greq EXCEPT ![g] =
                           AfterAttempt(r, ~dbOk, attempt,
                                        IF dbOk THEN Append(r.createdTickets, t)
                                        ELSE r.createdTickets)]
             /\ IF Emits(result)
                THEN /\ emitted' = Append(emitted, NewTicketEvent(t, g))
                     /\ board' = [b \in Boards |->
                                    OnNewTicket(b, NewTicketEvent(t, g))]
                     /\ fetches' = [b \in Boards |->
                                      IF board[b].connected
                                      THEN StartFetch(b, EffectRaised)
                                      ELSE fetches[b]]
                ELSE UNCHANGED <<emitted, board, fetches>>
  /\ UNCHANGED <<tickets, nextId, creq, ureq, now, dreq>>

GuestNext ==
  \/ \E g \in GuestReqs : GuestStart(g)
  \/ \E g \in GuestReqs : GuestClassify(g)
  \/ \E g \in GuestReqs : GuestFindRoom(g)
  \/ \E g \in GuestReqs : GuestCreate(g)
  \/ \E g \in GuestReqs : GuestPopulate(g)

\* --------------------------------------------------------------- guest page
\* the condition under which handleSendMessage goes on to create tickets:
\* aiResponse.data.shouldCreateTicket && aiResponse.data.categories?.length > 0
Announces(resp) ==
  resp.code = 200 /\ resp.shouldCreateTicket /\ Len(resp.categories) > 0

\* handleSendMessage after the reply to POST /chat/ai arrived: the same
\* message and room are posted to /tickets/guest, which classifies them anew
PostGuestTicket(g) ==
  /\ creq.pc = "done"
  /\ Announces(creq.resp)
  /\ greq[g].pc = "idle"
  /\ \E answers \in BOOLEAN :
       greq' = [greq EXCEPT ![g] =
                  [@ EXCEPT !.pc = "classify", !.roomNumber = creq.roomNumber,
                            !.settles = Settles(creq.roomNumber, answers)]]
  /\ UNCHANGED <<tickets, nextId, creq, ureq, emitted, board, fetches, now,
                 dreq>>

\* ------------------------------------------------------------- updateTicket
StatusInputs == Statuses \cup {NoStatus, "bogus"}
ReplyText(r) == "reply" \o ToString(r)
ResponseInputs(r) == {NoResponse, ReplyText(r)}

UpdateIdle == [pc |-> "idle", id |-> 0, status |-> NoStatus,
               response |-> NoResponse, read |-> NoTicket, doc |-> NoTicket,
               lookup |-> "none", code |-> 0]

ApplyBodyClearsOnReopen(doc, status, response) ==
  LET d1 == IF status # NoStatus THEN [doc EXCEPT !.status = status] ELSE doc
      d2 == IF status = "in_progress"
            THEN [d1 EXCEPT !.completedAt = NotCompleted] ELSE d1
  IN IF response # NoResponse
     THEN [d2 EXCEPT !.messages =
             Append(@, [content |-> response, sender |-> "manager"])]
     ELSE d2

ApplyBodyTakesCategory(doc, status, response) ==
  LET d1 == IF status # NoStatus THEN [doc EXCEPT !.status = status] ELSE doc
      d2 == [d1 EXCEPT !.category = BodyCategory]
  IN IF response # NoResponse
     THEN [d2 EXCEPT !.messages =
             Append(@, [content |-> response, sender |-> "manager"])]
     ELSE d2

\* lines 246-271: the handler takes status and response from the body and
\* nothing else; the in-memory document after its assignments
ApplyBody(doc, status, response) ==
  LET d1 == IF status # NoStatus THEN [doc EXCEPT !.status = status] ELSE doc
  IN IF response # NoResponse
     THEN [d1 EXCEPT !.messages =
             Append(@, [content |-> response, sender |-> "manager"])]
     ELSE d1

\* the Ticket schema's validation of the status path, run by save()
ValidStatus(doc) == doc.status \in Statuses

\* the Ticket schema on save: a status that becomes completed stamps
\* completedAt, and nothing clears it
StampCompletion(read, doc, time) ==
  IF doc.status = "completed" /\ read.status # "completed"
  THEN [doc EXCEPT !.completedAt = time]
  ELSE doc

SaveOverwrites(stored, read, doc) == doc

SaveSetsEveryScalar(stored, read, doc) ==
  [stored EXCEPT
     !.status = doc.status,
     !.category = doc.category,
     !.completedAt = doc.completedAt,
     !.messages = @ \o SubSeq(doc.messages, Len(read.messages) + 1,
                              Len(doc.messages))]

\* ticket.save(): the document layer sends the paths modified since the read,
\* not the document: an assigned path that differs from the value read is a
\* $set of that path, the pushed messages are a $push onto the stored array
Save(stored, read, doc) ==
  [stored EXCEPT
     !.status = IF doc.status # read.status THEN doc.status ELSE @,
     !.category = IF doc.category # read.category THEN doc.category ELSE @,
     !.completedAt = IF doc.completedAt # read.completedAt
                     THEN doc.completedAt ELSE @,
     !.messages = @ \o SubSeq(doc.messages, Len(read.messages) + 1,
                              Len(doc.messages))]

UpdateName(r) == "u" \o ToString(r)

\* the bodies a client sends; nextId is an _id that matches no ticket
UpdateInputs(r) ==
  {[id |-> id, status |-> st, response |-> resp] :
     id \in DOMAIN tickets \cup {nextId}, st \in StatusInputs,
     resp \in ResponseInputs(r)}

\* PUT /tickets/:id arrives; the handler runs up to the awaited findById
UpdateStartWith(r, inputs) ==
  /\ ureq[r].pc = "idle"
  /\ \E in \in inputs :
       ureq' = [ureq EXCEPT ![r] =
                  [@ EXCEPT !.pc = "find", !.id = in.id, !.status = in.status,
                            !.response = in.response]]
  /\ UNCHANGED <<tickets, nextId, creq, greq, emitted, board, fetches, now, dreq>>

UpdateStart(r) == UpdateStartWith(r, UpdateInputs(r))

FindMissAnswersOk(u) ==
  [u EXCEPT !.pc = "done", !.lookup = "null", !.code = 200]

\* if (!ticket): 404 "Ticket not found", and the handler returns
FindMiss(u) ==
  [u EXCEPT !.pc = "done", !.lookup = "null", !.code = 404]

\* findById settles: rejected (500), no ticket (404), or the document is
\* modified in memory and save() is issued
UpdateFind(r) ==
  /\ ureq[r].pc = "find"
  /\ LET u == ureq[r] IN
     \E dbOk \in BOOLEAN :
       ureq' = [ureq EXCEPT ![r] =
                  IF ~dbOk THEN [u EXCEPT !.pc = "done", !.lookup = "rejected",
                                          !.code = 500]
                  ELSE IF u.id \notin DOMAIN tickets
                  THEN FindMiss(u)
                  ELSE [u EXCEPT !.pc = "save", !.read = tickets[u.id],
                                 !.lookup = "found",
                                 !.doc = ApplyBody(tickets[u.id], u.status,
                                                   u.response)]]
  /\ UNCHANGED <<tickets, nextId, creq, greq, emitted, board, fetches, now, dreq>>

\* save() settles: validation error, rejected write or vanished document
\* (all caught: 500), or the write is applied
UpdateSave(r) ==
  /\ ureq[r].pc = "save"
  /\ LET u == ureq[r] IN
     \E dbOk \in BOOLEAN :
       IF ValidStatus(u.doc) /\ dbOk /\ u.id \in DOMAIN tickets
       THEN LET doc == StampCompletion(u.read, u.doc, now) IN
            /\ tickets' = [tickets EXCEPT ![u.id] = Save(@, u.read, doc)]
            /\ ureq' = [ureq EXCEPT ![r] = [@ EXCEPT !.pc = "emit",
                                                    !.doc = doc]]
       ELSE /\ ureq' = [ureq EXCEPT ![r] = [@ EXCEPT !.pc = "done", !.code = 500]]
            /\ UNCHANGED tickets
  /\ UNCHANGED <<nextId, creq, greq, emitted, board, fetches, now, dreq>>

\* after the save: io.emit("ticketUpdated", ticket) and res.json
UpdateEmit(r) ==
  /\ ureq[r].pc = "emit"
  /\ emitted' = Append(emitted, TicketUpdatedEvent(ureq[r].doc, UpdateName(r)))
  /\ board' = [b \in Boards |->
                 OnTicketUpdated(b, TicketUpdatedEvent(ureq[r].doc, UpdateName(r)))]
  /\ ureq' = [ureq EXCEPT ![r] = [@ EXCEPT !.pc = "done", !.code = 200]]
  /\ UNCHANGED <<tickets, nextId, creq, greq, fetches, now, dreq>>

UpdateNext ==
  \/ \E r \in UpdateReqs : UpdateStart(r)
  \/ \E r \in UpdateReqs : UpdateFind(r)
  \/ \E r \in UpdateReqs : UpdateSave(r)
  \/ \E r \in UpdateReqs : UpdateEmit(r)

\* ------------------------------------------------------------- deleteTicket
DeleteIdle == [pc |-> "idle", id |-> 0, lookup |-> "none", code |-> 0]

findByIdAndDeleteKeeps(docs, id) == docs

\* Ticket.findByIdAndDelete(id): the collection without that document
findByIdAndDelete(docs, id) ==
  [i \in DOMAIN docs \ {id} |-> docs[i]]

\* DELETE /tickets/:id arrives; the handler runs up to the awaited findById
DeleteStart(d) ==
  /\ dreq[d].pc = "idle"
  /\ \E id \in DOMAIN tickets \cup {nextId} :
       dreq' = [dreq EXCEPT ![d] = [@ EXCEPT !.pc = "find", !.id = id]]
  /\ UNCHANGED <<tickets, nextId, creq, greq, ureq, emitted, board, fetches,
                 now>>

\* findById settles: rejected (500), no ticket (404), or the delete is issued
DeleteFind(d) ==
  /\ dreq[d].pc = "find"
  /\ LET q == dreq[d] IN
     \E dbOk \in BOOLEAN :
       dreq' = [dreq EXCEPT ![d] =
                  IF ~dbOk THEN [q EXCEPT !.pc = "done", !.lookup = "rejected",
                                          !.code = 500]
                  ELSE IF q.id \notin DOMAIN tickets
                  THEN [q EXCEPT !.pc = "done", !.lookup = "null",
                                 !.code = 404]
                  ELSE [q EXCEPT !.pc = "remove", !.lookup = "found"]]
  /\ UNCHANGED <<tickets, nextId, creq, greq, ureq, emitted, board, fetches,
                 now>>

\* findByIdAndDelete settles: rejected (500), or the document is gone (200);
\* a document another request removed meanwhile is answered 200 as well
DeleteRemove(d) ==
  /\ dreq[d].pc = "remove"
  /\ \E dbOk \in BOOLEAN :
       IF dbOk
       THEN /\ tickets' = findByIdAndDelete(tickets, dreq[d].id)
            /\ dreq' = [dreq EXCEPT ![d] = [@ EXCEPT !.pc = "done",
                                                    !.code = 200]]
       ELSE /\ dreq' = [dreq EXCEPT ![d] = [@ EXCEPT !.pc = "done",
                                                    !.code = 500]]
            /\ UNCHANGED tickets
  /\ UNCHANGED <<nextId, creq, greq, ureq, emitted, board, fetches, now>>

DeleteNext ==
  \/ \E d \in DeleteReqs : DeleteStart(d)
  \/ \E d \in DeleteReqs : DeleteFind(d)
  \/ \E d \in DeleteReqs : DeleteRemove(d)

\* ------------------------------------------------------- ticket controller
\* PUT /tickets/:id/status and POST /tickets/:id/messages are served by the
\* ticket controller: overwrite the status, or append one message, and notify

SetStatus(ticket, status, time) ==
  StampCompletion(ticket, [ticket EXCEPT !.status = status], time)

ManagerMessage(ticket) ==
  [content |-> "note" \o ToString(Len(ticket.messages)), sender |-> "manager"]

AppendMessage(ticket, message) == [ticket EXCEPT !.messages = Append(@, message)]

\* ---------------------------------------------------------------- getTickets
RECURSIVE NewestFirst(_)
\* Ticket.find({}).sort({createdAt: -1}): ids are handed out in creation order
NewestFirst(ids) ==
  IF ids = {} THEN <<>>
  ELSE LET m == CHOOSE i \in ids : \A j \in ids : j <= i
       IN <<tickets[m]>> \o NewestFirst(ids \ {m})

getTickets == NewestFirst(DOMAIN tickets)

\* ------------------------------------------------------------ dashboard page
RECURSIVE OfStatus(_, _)
\* the tickets of a list that have the given status, in list order
OfStatus(list, st) ==
  IF list = <<>> THEN <<>>
  ELSE IF Head(list).status = st THEN <<Head(list)>> \o OfStatus(Tail(list), st)
       ELSE OfStatus(Tail(list), st)

\* fetchData's reduce: the fetched list grouped by status
GroupByStatus(ticketsData) == [st \in Statuses |-> OfStatus(ticketsData, st)]

RECURSIVE NotAmong(_, _)
\* the tickets of a list whose id none of the existing tickets has
NotAmong(list, existing) ==
  IF list = <<>> THEN <<>>
  ELSE IF \E i \in DOMAIN existing : existing[i].id = Head(list).id
       THEN NotAmong(Tail(list), existing)
       ELSE <<Head(list)>> \o NotAmong(Tail(list), existing)

\* fetchData's new-ticket check: when the fetched list has more raised tickets
\* than the raised bucket, and that bucket is not empty, one toast for every
\* fetched raised ticket that is not in the bucket
NewTicketToasts(raised, ticketsData) ==
  LET newRaised == OfStatus(ticketsData, "raised") IN
  IF Len(newRaised) > Len(raised) /\ Len(raised) > 0
  THEN LET newTickets == NotAmong(newRaised, raised)
       IN [i \in DOMAIN newTickets |-> newTickets[i].id]
  ELSE <<>>

SetTicketsKeepsLocal(buckets, groupedTickets) ==
  [st \in Statuses |->
     buckets[st] \o NotAmong(groupedTickets[st],
                             buckets.raised \o buckets.in_progress
                               \o buckets.completed)]

\* setTickets(groupedTickets): the state is the value given, whatever it was
SetTickets(buckets, groupedTickets) == groupedTickets

ReplaceAndRefile(buckets, id, updatedTicket) ==
  [st \in Statuses |->
     IF st = updatedTicket.status THEN Append(buckets[st], updatedTicket)
     ELSE buckets[st]]

\* handleSendMessage's setTickets: in every bucket, the ticket with this id is
\* replaced by the updated copy
ReplaceInBuckets(buckets, id, updatedTicket) ==
  [st \in Statuses |->
     [i \in DOMAIN buckets[st] |->
        IF buckets[st][i].id = id THEN updatedTicket ELSE buckets[st][i]]]

Shown(bd) == bd.tickets.raised \o bd.tickets.in_progress \o bd.tickets.completed

\* the key groupRelatedTickets files a ticket under: name, room and the
\* 5-minute slot of its creation time, joined with dashes
GroupKey(ticket) ==
  ticket.guestName \o "-" \o ticket.roomNumber \o "-"
    \o ToString(ticket.createdAt \div SlotMinutes)

RECURSIVE GroupInto(_, _)
\* the forEach of groupRelatedTickets over the Map, in insertion order
GroupInto(groups, list) ==
  IF list = <<>> THEN groups
  ELSE LET ticket == Head(list)
           groupKey == GroupKey(ticket)
       IN IF \E i \in DOMAIN groups : groups[i].key = groupKey
          THEN GroupInto([i \in DOMAIN groups |->
                            IF groups[i].key = groupKey
                            THEN [groups[i] EXCEPT
                                    !.members = Append(@, ticket)]
                            ELSE groups[i]],
                         Tail(list))
          ELSE GroupInto(Append(groups, [key |-> groupKey,
                                         members |-> <<ticket>>]),
                         Tail(list))

\* Array.from(groups.values())
groupRelatedTickets(list) ==
  LET groups == GroupInto(<<>>, list)
  IN [i \in DOMAIN groups |-> groups[i].members]

\* the filter of the ticket dialog: the selected ticket itself, and the
\* tickets of the same name and room created at most 5 minutes from it
IsRelated(t, selectedTicket) ==
  IF t.id = selectedTicket.id THEN TRUE
  ELSE IF t.guestName # selectedTicket.guestName THEN FALSE
  ELSE IF t.roomNumber # selectedTicket.roomNumber THEN FALSE
  ELSE LET timeDiff == IF t.createdAt >= selectedTicket.createdAt
                       THEN t.createdAt - selectedTicket.createdAt
                       ELSE selectedTicket.createdAt - t.createdAt
       IN timeDiff <= SlotMinutes

\* relatedTickets of the dialog, over Object.values(tickets).flat()
relatedTickets(bd) ==
  SelectSeq(Shown(bd), LAMBDA t : IsRelated(t, bd.selectedTicket))

\* the socket connects (on mount, or on a reconnection) or disconnects
SocketToggle(b) ==
  /\ board' = [board EXCEPT ![b].connected = ~@]
  /\ UNCHANGED <<tickets, nextId, creq, greq, ureq, emitted, fetches, now, dreq>>

\* mount and the 15-second interval call fetchData
IntervalTick(b) ==
  /\ board[b].pulls < MaxPulls
  /\ fetches' = [fetches EXCEPT ![b] = StartFetch(b, EffectRaised)]
  /\ board' = [board EXCEPT ![b].pulls = @ + 1]
  /\ UNCHANGED <<tickets, nextId, creq, greq, ureq, emitted, now, dreq>>

\* the server handles one GET /tickets: the response carries the collection
\* as it is now; a rejected query makes fetchData's catch run
GetTicketsSettles(b, dbOk) ==
  /\ \E f \in fetches[b] :
       /\ f.stage = "sent"
       /\ fetches' = [fetches EXCEPT ![b] =
                        IF dbOk
                        THEN (@ \ {f}) \cup {[f EXCEPT !.stage = "answered",
                                                       !.data = getTickets]}
                        ELSE @ \ {f}]
  /\ UNCHANGED <<tickets, nextId, creq, greq, ureq, emitted, board, now, dreq>>

GetTickets(b) == \E dbOk \in BOOLEAN : GetTicketsSettles(b, dbOk)

IntervalWhenConnected(b) ==
  /\ board[b].connected
  /\ \A f \in fetches[b] : f.n # 0
  /\ fetches' = [fetches EXCEPT ![b] =
                   @ \cup {[n |-> 0, stage |-> "sent", data |-> <<>>,
                            raised |-> EffectRaised]}]
  /\ UNCHANGED <<tickets, nextId, creq, greq, ureq, emitted, board, now, dreq>>

\* the interval fires for as long as the page is mounted: the calls that
\* follow the counted ones, each made when the one before it has ended (the
\* requests end within the 15 seconds between two calls)
IntervalAgain(b) ==
  /\ \A f \in fetches[b] : f.n # 0
  /\ fetches' = [fetches EXCEPT ![b] =
                   @ \cup {[n |-> 0, stage |-> "sent", data |-> <<>>,
                            raised |-> EffectRaised]}]
  /\ UNCHANGED <<tickets, nextId, creq, greq, ureq, emitted, board, now, dreq>>

\* the responses of one fetchData call arrive: setTickets(groupedTickets)
FetchApply(b) ==
  /\ \E f \in fetches[b] :
       /\ f.stage = "answered"
       /\ fetches' = [fetches EXCEPT ![b] = @ \ {f}]
       /\ board' = [board EXCEPT
                      ![b].toasts = @ \o NewTicketToasts(f.raised, f.data),
                      ![b].tickets = SetTickets(@, GroupByStatus(f.data))]
  /\ UNCHANGED <<tickets, nextId, creq, greq, ureq, emitted, now, dreq>>

\* a card is clicked (setSelectedTicket(ticket)) or the dialog is closed
OpenTicket(b) ==
  /\ ~board[b].sending.active
  /\ \E t \in Range(Shown(board[b])) \cup {NoTicket} :
       /\ t # board[b].selectedTicket
       /\ board' = [board EXCEPT ![b].selectedTicket = t]
  /\ UNCHANGED <<tickets, nextId, creq, greq, ureq, emitted, fetches, now, dreq>>

\* handleSendMessage up to its await: POST /tickets/:id/messages is served
SendMessage(b) ==
  /\ board[b].selectedTicket # NoTicket
  /\ ~board[b].sending.active
  /\ LET id == board[b].selectedTicket.id IN
     /\ id \in DOMAIN tickets
     /\ Len(tickets[id].messages) < MaxMessages
     /\ tickets' = [tickets EXCEPT ![id] = AppendMessage(@, ManagerMessage(@))]
     /\ board' = [x \in Boards |->
                    LET bd == OnTicketUpdated(x, TicketUpdatedEvent(tickets'[id], b))
                    IN IF x # b THEN bd
                       ELSE [bd EXCEPT !.sending =
                               [active |-> TRUE,
                                ticket |-> AppendMessage(bd.selectedTicket,
                                             ManagerMessage(tickets[id]))]]]
  /\ UNCHANGED <<nextId, creq, greq, ureq, emitted, fetches, now, dreq>>

\* handleSendMessage after its await: the selected copy with the new message
\* becomes the selected ticket and replaces the board's copy
SendMessageDone(b) ==
  /\ board[b].sending.active
  /\ LET updatedTicket == board[b].sending.ticket IN
     board' = [board EXCEPT
                 ![b].selectedTicket = updatedTicket,
                 ![b].tickets = ReplaceInBuckets(@, updatedTicket.id,
                                                 updatedTicket),
                 ![b].sending = NotSending]
  /\ UNCHANGED <<tickets, nextId, creq, greq, ureq, emitted, fetches, now, dreq>>

\* handleStatusChange (a card is dropped on another column, or the dialog's
\* select changes): PUT /tickets/:id/status is served, then fetchData is called
StatusChange(b) ==
  /\ board[b].pulls < MaxPulls
  /\ \E t \in Range(Shown(board[b])), st \in Statuses :
       /\ t.id \in DOMAIN tickets
       /\ t.status # st
       /\ tickets' = [tickets EXCEPT ![t.id] = SetStatus(@, st, now)]
       /\ board' = [x \in Boards |->
                      LET bd == OnTicketUpdated(x,
                                  TicketUpdatedEvent(tickets'[t.id], b))
                      IN IF x # b THEN bd ELSE [bd EXCEPT !.pulls = @ + 1]]
  /\ fetches' = [fetches EXCEPT ![b] = StartFetch(b, board[b].tickets.raised)]
  /\ UNCHANGED <<nextId, creq, greq, ureq, emitted, now, dreq>>

BoardNext ==
  \/ \E b \in Boards : SocketToggle(b)
  \/ \E b \in Boards : IntervalTick(b)
  \/ \E b \in Boards : GetTickets(b)
  \/ \E b \in Boards : FetchApply(b)
  \/ \E b \in Boards : OpenTicket(b)
  \/ \E b \in Boards : SendMessage(b)
  \/ \E b \in Boards : SendMessageDone(b)
  \/ \E b \in Boards : StatusChange(b)

\* --------------------------------------------------------------------- clock
\* time passes between two steps of the handlers
Tick ==
  /\ now + ClockStep <= MaxTime
  /\ now' = now + ClockStep
  /\ UNCHANGED <<tickets, nextId, creq, greq, ureq, emitted, board, fetches,
               dreq>>

\* ------------------------------------------------------------ specifications
NoTickets == [i \in {} |-> NoTicket]

\* the tickets one guest request with both categories leaves behind
SeedTickets(n) ==
  [i \in 1..n |->
     NewTicket(i, "101",
               CategoryInfo(IF i = 1 THEN "housekeeping" ELSE "service_fb"), 0)]

Quiet ==
  /\ creq = ChatIdle
  /\ greq = [g \in GuestReqs |-> GuestIdle]
  /\ ureq = [r \in UpdateReqs |-> UpdateIdle]
  /\ dreq = [d \in DeleteReqs |-> DeleteIdle]
  /\ emitted = <<>>
  /\ board = [b \in Boards |-> BoardInit]
  /\ fetches = [b \in Boards |-> {}]
  /\ now = 0

Init == tickets = NoTickets /\ nextId = 1 /\ Quiet

ChatNext == ChatStart \/ ChatClassify

Next ==
  ChatNext \/ GuestNext \/ UpdateNext \/ DeleteNext \/ BoardNext \/ Tick

Spec == Init /\ [][Next]_vars

\* concurrent POST /tickets/guest requests against an empty collection
SpecGuest == Init /\ [][GuestNext]_vars

\* the two callers of the classification gateway: POST /chat/ai and one
\* POST /tickets/guest
ClassifyNext ==
  \/ ChatStart
  \/ ChatClassify
  \/ GuestStart("g1")
  \/ GuestClassify("g1")
  \/ GuestFindRoom("g1")
  \/ GuestCreate("g1")
  \/ GuestPopulate("g1")
SpecClassify == Init /\ [][ClassifyNext]_vars

\* one turn of the guest page: POST /chat/ai, and POST /tickets/guest when the
\* reply announced a request
TurnNext ==
  \/ ChatStart
  \/ ChatClassify
  \/ PostGuestTicket("g1")
  \/ GuestClassify("g1")
  \/ GuestFindRoom("g1")
  \/ GuestCreate("g1")
  \/ GuestPopulate("g1")
SpecTurn == Init /\ [][TurnNext]_vars

\* the same, the event loop running every continuation whose awaited call has
\* settled
SpecClassifyFair ==
  /\ Init
  /\ [][ClassifyNext]_vars
  /\ WF_vars(ChatClassify)
  /\ WF_vars(GuestClassify("g1"))
  /\ WF_vars(GuestFindRoom("g1"))
  /\ WF_vars(GuestCreate("g1"))
  /\ WF_vars(GuestPopulate("g1"))

\* concurrent PUT /tickets/:id requests against one existing ticket
InitUpdate == tickets = SeedTickets(1) /\ nextId = 2 /\ Quiet
SpecUpdate == InitUpdate /\ [][UpdateNext]_vars

\* DELETE /tickets/:id requests against two existing tickets, next to one
\* PUT /tickets/:id request that sets a status
DeleteUpdateInputs ==
  {[id |-> id, status |-> "in_progress", response |-> NoResponse] :
     id \in DOMAIN tickets \cup {nextId}}
InitDelete == tickets = SeedTickets(2) /\ nextId = 3 /\ Quiet
DeleteSystemNext ==
  \/ DeleteNext
  \/ UpdateStartWith(1, DeleteUpdateInputs)
  \/ UpdateFind(1)
  \/ UpdateSave(1)
  \/ UpdateEmit(1)
SpecDelete == InitDelete /\ [][DeleteSystemNext]_vars

\* the dashboard, mounted and connected, with one other staff session that
\* completes ticket 1 and replies to it through PUT /tickets/:id
InitBoard ==
  /\ tickets = SeedTickets(1) /\ nextId = 2
  /\ creq = ChatIdle
  /\ greq = [g \in GuestReqs |-> GuestIdle]
  /\ ureq = [r \in UpdateReqs |-> UpdateIdle]
  /\ dreq = [d \in DeleteReqs |-> DeleteIdle]
  /\ emitted = <<>>
  /\ board = [b \in Boards |-> [BoardInit EXCEPT !.connected = TRUE]]
  /\ fetches = [b \in Boards |-> {}]
  /\ now = 0
StaffUpdates ==
  {[id |-> 1, status |-> "completed", response |-> ReplyText(1)]}
BoardSystemNext ==
  \/ \E b \in Boards : IntervalTick(b)
  \/ \E b \in Boards : GetTickets(b)
  \/ \E b \in Boards : FetchApply(b)
  \/ \E b \in Boards : OpenTicket(b)
  \/ \E b \in Boards : SendMessage(b)
  \/ \E b \in Boards : SendMessageDone(b)
  \/ \E b \in Boards : StatusChange(b)
  \/ UpdateStartWith(1, StaffUpdates)
  \/ UpdateFind(1)
  \/ UpdateSave(1)
  \/ UpdateEmit(1)
SpecBoard == InitBoard /\ [][BoardSystemNext]_vars

\* a classification that asks for one ticket per category
TwoServices ==
  [kind |-> "ok",
   data |-> [should_create_ticket |-> TRUE, has_categories |-> TRUE,
             categories |-> <<CategoryInfo("housekeeping"),
                              CategoryInfo("service_fb")>>,
             confidence |-> 90, reasoning |-> "classified"]]

\* the dashboard, mounted for good, its socket up or down, while a guest
\* asks for two services and another staff session completes ticket 1; the
\* interval keeps firing, the backend answers again and again, and a
\* response that arrived is applied
InitPull == InitUpdate
PullNext ==
  \/ \E b \in Boards : SocketToggle(b)
  \/ \E b \in Boards : IntervalAgain(b)
  \/ \E b \in Boards : GetTickets(b)
  \/ \E b \in Boards : FetchApply(b)
  \/ GuestStart("g1")
  \/ GuestClassifyWith("g1", {TwoServices})
  \/ GuestFindRoom("g1")
  \/ GuestCreate("g1")
  \/ GuestPopulate("g1")
  \/ UpdateStartWith(1, StaffUpdates)
  \/ UpdateFind(1)
  \/ UpdateSave(1)
  \/ UpdateEmit(1)
SpecPull ==
  /\ InitPull
  /\ [][PullNext]_vars
  /\ \A b \in Boards :
       /\ WF_vars(IntervalAgain(b))
       /\ SF_vars(GetTicketsSettles(b, TRUE))
       /\ WF_vars(FetchApply(b))

\* two stored tickets of any guests, rooms and creation times, and a board
\* that pulls them and opens their dialogs
GroupedTickets ==
  {[i \in 1..2 |->
      [NewTicket(i, room[i], CategoryInfo("housekeeping"), at[i])
         EXCEPT !.guestName = name[i]]] :
     name \in [1..2 -> GuestNames], room \in [1..2 -> KnownRooms],
     at \in [1..2 -> 0..MaxTime]}
InitGroup ==
  /\ tickets \in GroupedTickets /\ nextId = 3
  /\ creq = ChatIdle
  /\ greq = [g \in GuestReqs |-> GuestIdle]
  /\ ureq = [r \in UpdateReqs |-> UpdateIdle]
  /\ dreq = [d \in DeleteReqs |-> DeleteIdle]
  /\ emitted = <<>>
  /\ board = [b \in Boards |-> [BoardInit EXCEPT !.connected = TRUE]]
  /\ fetches = [b \in Boards |-> {}]
  /\ now = MaxTime
GroupNext ==
  \/ \E b \in Boards : IntervalTick(b)
  \/ \E b \in Boards : GetTickets(b)
  \/ \E b \in Boards : FetchApply(b)
  \/ \E b \in Boards : OpenTicket(b)
SpecGroup == InitGroup /\ [][GroupNext]_vars

\* the dashboard, mounted and connected and showing ticket 1, while a guest
\* asks for two services and the staff move tickets between columns
AlertNext ==
  \/ \E b \in Boards : IntervalTick(b)
  \/ \E b \in Boards : GetTickets(b)
  \/ \E b \in Boards : FetchApply(b)
  \/ \E b \in Boards : StatusChange(b)
  \/ GuestStart("g1")
  \/ GuestClassifyWith("g1", {TwoServices})
  \/ GuestFindRoom("g1")
  \/ GuestCreate("g1")
  \/ GuestPopulate("g1")
  \/ Tick
SpecAlert == InitBoard /\ [][AlertNext]_vars

\* ------------------------------------------------------------------- claims
GuestCalls == {greq[g] : g \in GuestReqs}
Classified(r) == r.outcome.kind # "none"
EventsBy(g) == {i \in DOMAIN emitted : emitted[i].by = g}
CreatedAttempts(r) == {k \in DOMAIN r.attempts : r.attempts[k].result = "created"}
PersistedAttempts(r) ==
  {k \in DOMAIN r.attempts : r.attempts[k].result # "create_failed"}

\* C1: once the room is found, a finished request has made one creation
\* attempt per classified category, in order, whatever failed on the way, and
\* the tickets it persisted are among those attempts
C1_AttemptPerCategory ==
  \A g \in GuestReqs :
    LET r == greq[g]
        cats == r.call.value.categories
    IN (r.pc = "done" /\ r.roomFound) =>
         /\ r.call.value.should_create_ticket
         /\ Len(r.attempts) = Len(cats)
         /\ \A k \in DOMAIN cats : r.attempts[k].category = cats[k].category
         /\ \A k \in PersistedAttempts(r) :
              /\ r.attempts[k].id \in DOMAIN tickets
              /\ tickets[r.attempts[k].id].category = cats[k].category
         /\ Cardinality(PersistedAttempts(r)) \in 0..Len(cats)
         /\ Cardinality({r.attempts[k].id : k \in PersistedAttempts(r)})
              = Cardinality(PersistedAttempts(r))

C1_Witness ==
  \E g \in GuestReqs :
    /\ greq[g].pc = "done"
    /\ Len(greq[g].attempts) = 2
    /\ greq[g].attempts[1].result = "create_failed"
    /\ greq[g].attempts[2].result = "created"

\* C2: a request whose classification declines creates nothing, emits nothing
\* and is answered 200 with shouldCreateTicket false and isGreeting true
C2_GreetingSuppressed ==
  \A g \in GuestReqs :
    LET r == greq[g] IN
    (Classified(r) /\ ~r.call.value.should_create_ticket) =>
      /\ r.pc = "done"
      /\ r.attempts = <<>> /\ r.createdTickets = <<>> /\ r.pending = NoTicket
      /\ EventsBy(g) = {}
      /\ r.resp.code = 200
      /\ ~r.resp.shouldCreateTicket
      /\ r.resp.isGreeting
      /\ ((\A h \in GuestReqs \ {g} : greq[h].pc \in {"idle", "classify"})
            => DOMAIN tickets = {})

C2_Witness ==
  \E g \in GuestReqs :
    /\ greq[g].pc = "done"
    /\ greq[g].outcome.kind = "ok"
    /\ greq[g].roomNumber \in KnownRooms
    /\ ~greq[g].call.value.should_create_ticket
    /\ greq[g].call.value.categories # <<>>

\* C3: no classification call raises, and one whose HTTP call failed hands
\* back the fixed fallback result
C3_ClassifyNeverRaises ==
  \A r \in GuestCalls \cup {creq} :
    Classified(r) =>
      /\ ~r.call.raised
      /\ (r.outcome.kind \in {"network_error", "http_error"} =>
            /\ r.call.value.should_create_ticket = FALSE
            /\ r.call.value.has_categories
            /\ r.call.value.categories = <<>>
            /\ r.call.value.confidence = 0
            /\ r.call.value.reasoning = "Classification service unavailable")

C3_Witness ==
  /\ creq.pc = "done" /\ creq.outcome.kind = "http_error"
  /\ \E g \in GuestReqs :
       greq[g].pc = "done" /\ greq[g].outcome.kind = "network_error"

\* C4: every ticket in the collection comes from a classification that had
\* already completed, every newTicket event carries a ticket that is in the
\* collection and whose attempt succeeded, and a request has emitted exactly
\* one event per attempt that succeeded so far
C4_ClassifyCreateEmitOrder ==
  /\ \A g \in GuestReqs :
       greq[g].pc \in {"idle", "classify"} =>
         /\ greq[g].attempts = <<>> /\ greq[g].pending = NoTicket
         /\ EventsBy(g) = {}
  /\ \A id \in DOMAIN tickets :
       \E g \in GuestReqs :
         /\ greq[g].outcome.kind = "ok"
         /\ greq[g].call.value.should_create_ticket
         /\ \/ greq[g].pending.id = id
            \/ \E k \in DOMAIN greq[g].attempts : greq[g].attempts[k].id = id
  /\ \A i \in DOMAIN emitted :
       LET e == emitted[i] IN
       /\ e.type = "newTicket"
       /\ e.ticket.id \in DOMAIN tickets
       /\ tickets[e.ticket.id] = e.ticket
       /\ \E k \in CreatedAttempts(greq[e.by]) :
            greq[e.by].attempts[k].id = e.ticket.id
  /\ \A g \in GuestReqs :
       Cardinality(EventsBy(g)) = Cardinality(CreatedAttempts(greq[g]))

C4_Witness ==
  \E g \in GuestReqs :
    /\ Len(greq[g].attempts) = 2
    /\ greq[g].attempts[1].result = "populate_failed"
    /\ greq[g].attempts[2].result = "created"
    /\ Cardinality(EventsBy(g)) = 1

\* C5: when a request has ended, it has emitted as many newTicket events as it
\* has persisted tickets
C5_EventPerPersistedTicket ==
  \A g \in GuestReqs :
    greq[g].pc = "done" =>
      Cardinality(EventsBy(g)) = Cardinality(PersistedAttempts(greq[g]))

\* ---------------------------------------------------- claims on updateTicket
Saved(r) == ureq[r].pc = "emit" \/ (ureq[r].pc = "done" /\ ureq[r].code = 200)
Occurrences(messages, content) ==
  Cardinality({i \in DOMAIN messages : messages[i].content = content})

\* C6: the message of every update whose save went through is in the ticket's
\* messages, once, whatever other updates of the ticket were in flight, and no
\* step removes or reorders the messages a ticket already holds
C6_NoAppendLost ==
  /\ [](\A r \in UpdateReqs :
          (Saved(r) /\ ureq[r].response # NoResponse) =>
            Occurrences(tickets[ureq[r].id].messages, ureq[r].response) = 1)
  /\ [][\A id \in DOMAIN tickets :
          IsPrefix(tickets[id].messages, tickets'[id].messages)]_vars

\* two updates that both read the ticket before either saved, both appended
C6_Witness ==
  /\ \A r \in {1, 2} :
       /\ ureq[r].pc = "done" /\ ureq[r].code = 200
       /\ ureq[r].response # NoResponse
       /\ Len(ureq[r].read.messages) = 1
  /\ Len(tickets[1].messages) = 3

Injective(f) == \A i, j \in DOMAIN f : f[i] = f[j] => i = j
Orders(S) == {f \in [1..Cardinality(S) -> S] : Injective(f)}

RECURSIVE RunInOrder(_, _)
\* the ticket after the requests of the sequence ran one after the other
RunInOrder(ticket, order) ==
  IF order = <<>> THEN ticket
  ELSE RunInOrder(StampCompletion(ticket,
                                  ApplyBody(ticket, ureq[Head(order)].status,
                                            ureq[Head(order)].response),
                                  now),
                  Tail(order))

StatusOnly(r) == ureq[r].status # NoStatus /\ ureq[r].response = NoResponse
MessageOnly(r) == ureq[r].status = NoStatus /\ ureq[r].response # NoResponse

\* C7: when all updates have ended and each was a status update or a message
\* append, the ticket is what the successful ones give when run one after the
\* other in some order
C7_WritesSerialized ==
  (/\ \A r \in UpdateReqs : ureq[r].pc = "done"
   /\ \A r \in UpdateReqs : StatusOnly(r) \/ MessageOnly(r))
  => \E order \in Orders({r \in UpdateReqs : ureq[r].code = 200}) :
       tickets[1] = RunInOrder(SeedTickets(1)[1], order)

\* a status update saved between a message append's read and its save
C7_Witness ==
  /\ \A r \in UpdateReqs : ureq[r].pc = "done"
  /\ \E r, q \in UpdateReqs :
       /\ StatusOnly(r) /\ MessageOnly(q)
       /\ ureq[r].code = 200 /\ ureq[q].code = 200
       /\ ureq[r].status = "completed"
       /\ ureq[q].read.status = "raised"
       /\ tickets[1].status = "completed"
       /\ Len(tickets[1].messages) = 2

\* C8: every stored status is one of the three, and an update that asks for
\* another status on an existing ticket is answered with a client error
\* (InvalidStatus), the ticket staying as it was
C8_InvalidStatusRejected ==
  /\ \A id \in DOMAIN tickets : tickets[id].status \in Statuses
  /\ \A r \in UpdateReqs :
       (/\ ureq[r].pc = "done"
        /\ ureq[r].read # NoTicket
        /\ ureq[r].status \notin Statuses \cup {NoStatus})
       => ureq[r].code = 400

\* ------------------------------------------------ claims on the staff board
Ids(list) == {list[i].id : i \in DOMAIN list}

\* C9: on every board no ticket id is shown twice, in one bucket or in two
C9_NoDuplicateAcrossBuckets ==
  \A b \in Boards :
    LET shown == Shown(board[b]) IN
    \A i, j \in DOMAIN shown : shown[i].id = shown[j].id => i = j

\* a pull has moved a ticket to another bucket and handleSendMessage has then
\* put its older copy of the ticket, with the new message, in that bucket
C9_Witness ==
  \E b \in Boards, st \in Statuses :
    \E i \in DOMAIN board[b].tickets[st] :
      /\ board[b].tickets[st][i].status # st
      /\ Len(board[b].tickets[st][i].messages) > 1
      /\ board[b].selectedTicket = board[b].tickets[st][i]

\* C10: when updateTicket emits ticketUpdated for a status change, every
\* connected board that shows the ticket in the bucket of its old status shows
\* it right after in the bucket of its new status, and in no other
C10_PushMovesTicket ==
  [][\A r \in UpdateReqs, b \in Boards :
       (/\ ureq[r].pc = "emit" /\ ureq'[r].pc = "done"
        /\ ureq[r].doc.status # ureq[r].read.status
        /\ board[b].connected
        /\ ureq[r].id \in Ids(board[b].tickets[ureq[r].read.status]))
       => /\ ureq[r].id \in Ids(board'[b].tickets[ureq[r].doc.status])
          /\ ureq[r].id \notin Ids(board'[b].tickets[ureq[r].read.status])]_vars

\* the position of a ticket in a fetched list
PositionIn(list, ticket) == CHOOSE p \in DOMAIN list : list[p] = ticket

\* the step in which the responses of the fetchData call f of board b arrive
PullApplied(b, f) ==
  /\ f \in fetches[b]
  /\ f.stage = "answered"
  /\ fetches'[b] = fetches[b] \ {f}

\* C11: right after a pull is applied, every fetched ticket is in the bucket of
\* its status, the buckets hold nothing else, nothing twice, and each bucket
\* is in the order of the fetched list, whatever the buckets held before
C11_PullReplacesBuckets ==
  [][\A b \in Boards : \A f \in fetches[b] :
       PullApplied(b, f) =>
         LET bk == board'[b].tickets IN
         /\ DOMAIN bk = Statuses
         /\ \A st \in Statuses : \A i \in DOMAIN bk[st] :
              /\ bk[st][i].status = st
              /\ bk[st][i] \in Range(f.data)
         /\ \A p \in DOMAIN f.data :
              f.data[p] \in Range(bk[f.data[p].status])
         /\ Len(bk.raised) + Len(bk.in_progress) + Len(bk.completed)
              = Len(f.data)
         /\ \A st \in Statuses : \A i, j \in DOMAIN bk[st] :
              i < j => PositionIn(f.data, bk[st][i])
                         < PositionIn(f.data, bk[st][j])]_vars

\* handleSendMessage left its older copy of a ticket on the board, and a pull
\* applied after it shows the ticket as the store has it
C11_Witness ==
  \E b \in Boards :
    /\ board[b].selectedTicket.status = "raised"
    /\ Len(board[b].selectedTicket.messages) = 2
    /\ board[b].tickets.raised = <<>>
    /\ board[b].tickets.completed = <<tickets[1]>>
    /\ tickets[1].status = "completed"

\* C12: the store changes finitely often, and from some point on every
\* mounted board shows the store's tickets grouped by status, whether or not a
\* push event ever reached it
C12_PullBackstop ==
  <>[](\A b \in Boards : board[b].tickets = GroupByStatus(getTickets))

\* both tickets of the guest were announced while the socket was down, no push
\* event ever reached the board, and the board shows them
C12_Witness ==
  \E b \in Boards :
    /\ Len(emitted) >= 2
    /\ board[b].pulls = 0
    /\ board[b].toasts = <<>>
    /\ Len(board[b].tickets.raised) >= 2
    /\ board[b].tickets = GroupByStatus(getTickets)

\* ----------------------------------------------- claims on new-ticket toasts
NewToasts(b) ==
  {board'[b].toasts[i] : i \in Len(board[b].toasts) + 1 .. Len(board'[b].toasts)}

\* C13: a board never shows two new-ticket toasts for one ticket id, and a
\* toast it shows is for a ticket that was not in its raised bucket when the
\* toast was shown
C13_ToastOncePerNewTicket ==
  /\ [](\A b \in Boards : \A i, j \in DOMAIN board[b].toasts :
          board[b].toasts[i] = board[b].toasts[j] => i = j)
  /\ [][\A b \in Boards :
          NewToasts(b) \cap Ids(board[b].tickets.raised) = {}]_vars

\* the correlation window of a ticket group, in minutes
CorrelationWindow == 5
Apart(t, u) ==
  IF t.createdAt >= u.createdAt THEN t.createdAt - u.createdAt
  ELSE u.createdAt - t.createdAt
SameGroup(t, u) ==
  /\ t.guestName = u.guestName
  /\ t.roomNumber = u.roomNumber
  /\ Apart(t, u) <= CorrelationWindow

\* the ids of the tickets a request has announced
AnnouncedBy(g) == {emitted[i].ticket.id : i \in EventsBy(g)}

\* C14: of the tickets one request announced that are in one group, a board
\* has shown a new-ticket toast for at most one
C14_BatchToastSuppressed ==
  \A b \in Boards, g \in GuestReqs :
    \A i, j \in DOMAIN board[b].toasts :
      LET t == board[b].toasts[i]
          u == board[b].toasts[j]
      IN (/\ t \in AnnouncedBy(g) /\ u \in AnnouncedBy(g)
          /\ SameGroup(tickets[t], tickets[u]))
         => t = u

\* ----------------------------------------------------- claims on grouping
GroupedTogether(groups, t, u) ==
  \E i \in DOMAIN groups : t \in Range(groups[i]) /\ u \in Range(groups[i])

\* C15: for every two tickets a board shows, groupRelatedTickets puts them in
\* one group exactly when they have the same guest name and room number and
\* were created at most 5 minutes apart, and the dialog opened on one of them
\* lists the other under the same condition
C15_GroupingWithinWindow ==
  \A b \in Boards :
    LET shown == Shown(board[b]) IN
    \A t, u \in Range(shown) :
      /\ GroupedTogether(groupRelatedTickets(shown), t, u) <=> SameGroup(t, u)
      /\ board[b].selectedTicket = t =>
            (u \in Range(relatedTickets(board[b])) <=> SameGroup(t, u))

\* ------------------------------------------- claims on the classifier call
\* C16: a request that waits for the classification stops waiting: the call
\* returns a result or the fallback, and the request goes on to its answer
C16_ClassifyBounded ==
  /\ (creq.pc = "classify") ~> (creq.pc = "done")
  /\ \A g \in GuestReqs : (greq[g].pc = "classify") ~> (greq[g].pc = "done")

\* ------------------------------------- claims on createGuestTicket's answers
UnknownRoom(r) == r.roomNumber # "" /\ r.roomNumber \notin KnownRooms

\* C17, as stated: a request that has ended and named a room that does not
\* exist was answered 404, and created and announced nothing
C17_UnknownRoomAlways404 ==
  \A g \in GuestReqs :
    (greq[g].pc = "done" /\ UnknownRoom(greq[g])) =>
      /\ greq[g].resp.code = 404
      /\ greq[g].attempts = <<>>
      /\ EventsBy(g) = {}

\* C17, amended: a request that names a room that does not exist creates no
\* ticket and announces none; it is answered 404 when its room lookup found
\* nothing, which it does when the classification asked for a ticket and the
\* lookup was served, and otherwise with the greeting or with 500
C17_UnknownRoomCreatesNothing ==
  /\ \A id \in DOMAIN tickets : tickets[id].roomNumber \in KnownRooms
  /\ \A g \in GuestReqs :
       LET r == greq[g] IN
       UnknownRoom(r) =>
         /\ r.attempts = <<>> /\ r.pending = NoTicket
         /\ r.createdTickets = <<>>
         /\ EventsBy(g) = {}
         /\ r.roomLookup \in {"none", "rejected", "null"}
         /\ r.roomLookup = "null" => (r.pc = "done" /\ r.resp.code = 404)
         /\ r.roomLookup = "rejected" => (r.pc = "done" /\ r.resp.code = 500)
         /\ (r.pc = "done" /\ r.roomLookup = "none") =>
              (~r.call.value.should_create_ticket /\ r.resp = GreetingResp)
         /\ (r.pc = "done" /\ r.call.value.should_create_ticket) =>
              r.roomLookup # "none"

\* one request was answered 404 for room 999 while another created a ticket
C17_Witness ==
  \E g, h \in GuestReqs :
    /\ greq[g].pc = "done" /\ greq[g].roomNumber = "999"
    /\ greq[g].call.value.should_create_ticket
    /\ greq[g].call.value.categories # <<>>
    /\ greq[g].resp.code = 404
    /\ greq[h].createdTickets # <<>>

FailedAttempts(r) == {k \in DOMAIN r.attempts : r.attempts[k].result # "created"}

\* C18: a request that found its room and has ended, some of whose creations
\* failed, was answered 201 with a ticketCount that is the number of tickets
\* it persisted, less than the number of classified categories
C18_PartialFailureCount ==
  \A g \in GuestReqs :
    LET r == greq[g] IN
    (r.pc = "done" /\ r.roomFound /\ FailedAttempts(r) # {}) =>
      /\ r.resp.code = 201
      /\ r.resp.ticketCount = Cardinality(PersistedAttempts(r))
      /\ r.resp.ticketCount < Len(r.call.value.categories)

\* C19: the categories of a 201 response are the categories of the tickets
\* the request created, in order: as many as ticketCount, none of a creation
\* that failed
C19_ResponseCategoriesCreated ==
  \A g \in GuestReqs :
    LET r == greq[g] IN
    (r.pc = "done" /\ r.resp.code = 201) =>
      /\ Len(r.resp.categories) = r.resp.ticketCount
      /\ r.resp.categories =
           [i \in DOMAIN r.createdTickets |-> r.createdTickets[i].category]

\* C20: a request whose room lookup or one of whose ticket writes was
\* rejected by the backend was answered with a 5xx status, not with success
C20_PersistenceFailureFatal ==
  \A g \in GuestReqs :
    LET r == greq[g] IN
    (/\ r.pc = "done"
     /\ \/ r.roomLookup = "rejected"
        \/ \E k \in DOMAIN r.attempts : r.attempts[k].result = "create_failed")
    => r.resp.code \in 500..599

C22_CategoryImmutable ==
  /\ [][\A id \in DOMAIN tickets \cap DOMAIN tickets' :
          tickets'[id].category = tickets[id].category]_vars
  /\ [](\A r \in UpdateReqs :
          ureq[r].read # NoTicket =>
            /\ ureq[r].read.category = SeedTickets(1)[1].category
            /\ tickets[ureq[r].id].category = SeedTickets(1)[1].category)

\* a status change and a reply have both been saved
C22_Witness ==
  /\ \E r \in UpdateReqs :
       ureq[r].pc = "done" /\ ureq[r].code = 200 /\ ureq[r].status = "in_progress"
  /\ \E r \in UpdateReqs :
       ureq[r].pc = "done" /\ ureq[r].code = 200 /\ ureq[r].response # NoResponse
  /\ tickets[1].status = "in_progress"
  /\ Len(tickets[1].messages) >= 2
  /\ tickets[1].category = "housekeeping"

\* ------------------------------------------------ claims on ticketUpdated
UpdateEvents(r) ==
  {i \in DOMAIN emitted :
     emitted[i].type = "ticketUpdated" /\ emitted[i].by = UpdateName(r)}

\* an update emits after its save and only then, once
EmitsOncePerSave ==
  \A r \in UpdateReqs :
    /\ (ureq[r].pc = "done" /\ ureq[r].code = 200) =>
         Cardinality(UpdateEvents(r)) = 1
    /\ ~(ureq[r].pc = "done" /\ ureq[r].code = 200) => UpdateEvents(r) = {}

\* C23: an update that was answered 200 has emitted one ticketUpdated event,
\* any other update none, and the payload of the event is {ticket,
\* notification}, with the saved ticket and a notification made of title,
\* message and timestamp
C23_UpdatedEventShape ==
  /\ EmitsOncePerSave
  /\ \A r \in UpdateReqs : \A i \in UpdateEvents(r) :
       /\ DOMAIN emitted[i].payload = {"ticket", "notification"}
       /\ emitted[i].payload.ticket = ureq[r].doc
       /\ DOMAIN emitted[i].payload.notification
            = {"title", "message", "timestamp"}

\* C24: an update whose findById finds no ticket under the id is answered 404;
\* no step of that request changes a ticket or emits an event, and no
\* ticketUpdated event is ever attributed to it.
UpdateMissed(r) == ureq[r].lookup = "null"

C24_MissingUpdate404 ==
  /\ [](\A r \in UpdateReqs :
         UpdateMissed(r) =>
           /\ ureq[r].pc = "done" /\ ureq[r].code = 404
           /\ UpdateEvents(r) = {})
  /\ [][\A r \in UpdateReqs :
          (ureq'[r] # ureq[r] /\ ureq[r].id \notin DOMAIN tickets
             /\ ureq[r].pc = "find")
            => tickets' = tickets /\ emitted' = emitted]_vars

\* one update missed its ticket while another one was saved and announced
C24_Witness ==
  \E r, q \in UpdateReqs :
     /\ UpdateMissed(r) /\ ureq[r].code = 404
     /\ ureq[q].code = 200 /\ UpdateEvents(q) # {}

\* C25: once a delete of an id has been answered 200 the ticket is gone for
\* good: it is not in the collection and not in any listing, and a lookup of
\* that id made afterwards by an update or a delete finds nothing and is
\* answered 404. A delete removes exactly its own ticket and leaves the others
\* as they were; a delete of an absent id is answered 404 and changes nothing.
Deleted(id) ==
  \E d \in DeleteReqs : dreq[d].id = id /\ dreq[d].code = 200

Listed(id) ==
  \E k \in DOMAIN getTickets : getTickets[k].id = id

LooksUpDeleted(before, after) ==
  (before.pc = "find" /\ after.pc # "find" /\ Deleted(before.id))
    => /\ after.lookup \in {"null", "rejected"}
       /\ after.lookup = "null" => after.pc = "done" /\ after.code = 404

C25_DeletePermanent ==
  /\ [](\A id \in 1..nextId :
         Deleted(id) => id \notin DOMAIN tickets /\ ~Listed(id))
  /\ [](\A d \in DeleteReqs :
         dreq[d].lookup = "null" => dreq[d].pc = "done" /\ dreq[d].code = 404)
  /\ [][/\ \A d \in DeleteReqs : LooksUpDeleted(dreq[d], dreq'[d])
         /\ \A r \in UpdateReqs : LooksUpDeleted(ureq[r], ureq'[r])]_vars
  /\ [][\A d \in DeleteReqs :
          dreq'[d] # dreq[d] =>
            IF dreq[d].pc = "remove" /\ dreq'[d].code = 200
            THEN /\ DOMAIN tickets' = DOMAIN tickets \ {dreq[d].id}
                 /\ \A j \in DOMAIN tickets' : tickets'[j] = tickets[j]
            ELSE tickets' = tickets]_vars

\* ticket 1 was deleted, a second delete of it was answered 404, an update of
\* it was answered 404, and ticket 2 is still listed
C25_Witness ==
  /\ \E d, e \in DeleteReqs :
       /\ dreq[d].id = 1 /\ dreq[d].code = 200
       /\ dreq[e].id = 1 /\ dreq[e].code = 404
  /\ ureq[1].id = 1 /\ ureq[1].code = 404
  /\ Listed(2) /\ ~Listed(1)

\* C26: when the classifier answered with a payload that lacks its categories,
\* the classification the handler works with is the fixed fallback.
Malformed(outcome) == outcome.kind = "ok" /\ ~outcome.data.has_categories

C26_MalformedGetsFallback ==
  /\ (creq.pc # "idle" /\ Malformed(creq.outcome))
       => creq.call.value = Fallback
  /\ \A g \in GuestReqs :
       (greq[g].pc # "idle" /\ Malformed(greq[g].outcome))
         => greq[g].call.value = Fallback

\* C27: the document a guest request inserts has status raised, exactly one
\* message, sent by system, the subject "<CATEGORY> - Room <number>" and the
\* priority the classifier gave for the category, or medium when it gave none.
Creates(g) ==
  greq[g].pc = "create" /\ greq'[g].pc = "populate" /\ nextId' = nextId + 1

SubjectFor(category, roomNumber) ==
  (IF category = "housekeeping" THEN "HOUSEKEEPING" ELSE "SERVICE_FB")
    \o " - Room " \o roomNumber

C27_TicketStartsRaised ==
  [][\A g \in GuestReqs :
       Creates(g) =>
         LET info == greq[g].call.value.categories[greq[g].k]
             t == tickets'[nextId]
         IN /\ t.status = "raised"
            /\ Len(t.messages) = 1 /\ t.messages[1].sender = "system"
            /\ t.subject = SubjectFor(info.category, greq[g].roomNumber)
            /\ t.priority = (IF info.urgency \in {"low", "medium", "high"}
                             THEN info.urgency ELSE "medium")]_vars

\* one request left a ticket with the classifier's priority and one with the
\* default
C27_Witness ==
  \E i, j \in DOMAIN tickets :
     /\ tickets[i].priority = "high"
     /\ tickets[i].subject = "HOUSEKEEPING - Room 101"
     /\ tickets[j].priority = "medium"
     /\ tickets[j].subject = "SERVICE_FB - Room 101"

\* C28: on every board, every ticket held in a bucket has the status the
\* bucket is named after.
C28_BucketMatchesStatus ==
  \A b \in Boards : \A st \in Statuses :
    \A i \in DOMAIN board[b].tickets[st] :
      board[b].tickets[st][i].status = st

\* C29: when the buckets of a board show the store as it is now, the arrival
\* of the responses of a pull, whichever pull it is, leaves them showing the
\* store as it is now: a response fetched before the store's last change does
\* not replace what a later response put on the board.
ShowsStore(bd) == bd.tickets = GroupByStatus(getTickets)

C29_NoRegression ==
  [][\A b \in Boards : \A f \in fetches[b] :
       (ShowsStore(board[b]) /\ PullApplied(b, f))
         => ShowsStore(board'[b])]_vars

\* C30: when the reply of a turn announced a request for the categories C and
\* the turn's POST /tickets/guest has been answered, the tickets it created
\* are at least one and their categories are those of C.
TurnCategories(list) == {list[i].category : i \in DOMAIN list}

C30_TicketsMatchReply ==
  (Announces(creq.resp) /\ greq["g1"].pc = "done")
    => /\ greq["g1"].createdTickets # <<>>
       /\ TurnCategories(greq["g1"].createdTickets)
            = Range(creq.resp.categories)

====
